---- MODULE Spec2Model ----
(***************************************************************************)
(* Annotation timeline engine of linguai: the useUndoRedo history hook and *)
(* the HomePage handlers that drive it (annotation store, tier             *)
(* declarations, selection, import).                                       *)
(*                                                                         *)
(* Times are integers counting hundredths of a second (0.05 s = 5).        *)
(* null is modelled by Null.  A JavaScript object is a record that also    *)
(* carries its property insertion order (field keys), because              *)
(* JSON.stringify depends on it and deep equality does not.                *)
(***************************************************************************)
EXTENDS Integers, Sequences, FiniteSets, TLC

VARIABLES
    state,          \* useUndoRedo: {past, present, future}
    audioFile,      \* HomePage: opened audio file (0 = null)
    duration,       \* HomePage: duration
    currentTime,    \* HomePage: currentTime
    selectionStart, \* HomePage: selectionStart (Null = null)
    selectionEnd,   \* HomePage: selectionEnd (Null = null)
    zoomLevel,      \* HomePage: zoomLevel
    scrollX,        \* HomePage: scrollX
    tierNames,      \* HomePage: tierNames
    tierConfigs,    \* HomePage: tierConfigs
    nextUUID,       \* number of ids crypto.randomUUID() has handed out
    pending,        \* annotation imports whose file read has not completed
    lastOp,         \* the operation that produced this state, with its arguments
    thrown,         \* error raised by the last operation ("none" if none)
    before,         \* useUndoRedo state before the last hook operation
    waveformViewer, \* WaveformViewer: waveformData, isLoading, error, file
    analyzing       \* api.analyzeWaveform promises that have not settled

vars == <<state, audioFile, duration, currentTime, selectionStart,
          selectionEnd, zoomLevel, scrollX, tierNames, tierConfigs,
          nextUUID, pending, lastOp, thrown, before, waveformViewer,
          analyzing>>

homeVars == <<audioFile, duration, currentTime, selectionStart, selectionEnd,
              zoomLevel, scrollX, tierNames, tierConfigs, nextUUID, pending,
              waveformViewer, analyzing>>

Null == -1

(***************************************************************************)
(* Bounds                                                                  *)
(***************************************************************************)
\* maxHistory option passed to the hook in the history-only specification
HistoryBound == 3
\* number of distinct annotation ids used to build history values
HistoryIds == 2
\* pointer positions resolve to the times 0, 5, .., 5 * MaxTick
MaxTick == 1
\* crypto.randomUUID() is called at most MaxUUID times
MaxUUID == 2
\* history-growing handlers are taken only while past is shorter than this
MaxPast == 2
\* number of tier names the user can type
MaxTierNames == 1
\* number of annotation imports that can be in flight at once
MaxPending == 1
\* number of tiers declared before an export
MaxExportTiers == 2
\* number of tiers of a parsed file, and of records of each tier
MaxFileTiers == 2
MaxFileItems == 2

\* analysis requests in flight at once
MaxAnalyzing == 2

(***************************************************************************)
(* JavaScript helpers                                                      *)
(***************************************************************************)
Min(a, b) == IF a < b THEN a ELSE b
Max(a, b) == IF a > b THEN a ELSE b

\* Array.prototype.slice(begin) with JavaScript's treatment of a negative
\* or zero begin: slice(-n) keeps the last n elements, slice(-0) = slice(0)
\* keeps everything.
SliceFrom(s, begin) ==
    LET len == Len(s)
        k == IF begin < 0 THEN Max(len + begin, 0) ELSE Min(begin, len)
    IN  SubSeq(s, k + 1, len)

\* Array.prototype.slice(0, -1)
DropLast(s) == SubSeq(s, 1, Len(s) - 1)

Last(s) == s[Len(s)]

\* Property order of every Annotation literal in the program
AnnotationKeys == <<"id", "tier", "start", "end", "text", "type">>

\* The object literal { id, tier, start, end, text, type }
Annotation(id, tier, start, end, text, type) ==
    [keys |-> AnnotationKeys, id |-> id, tier |-> tier, start |-> start,
     end |-> end, text |-> text, type |-> type]

\* JSON.stringify of one object: properties are written in insertion order
ObjectJSON(o) == <<o.keys, o.id, o.tier, o.start, o.end, o.text, o.type>>

\* JSON.stringify of an Annotation[]
JSONStringify(arr) == [i \in 1..Len(arr) |-> ObjectJSON(arr[i])]

\* Array.isArray: every history value of the application is an Annotation[]
IsArray(v) == TRUE

\* Deep equality by value: same length, same properties with same values,
\* whatever the property order
ObjectDeepEqual(a, b) ==
    /\ a.id = b.id /\ a.tier = b.tier /\ a.start = b.start
    /\ a.end = b.end /\ a.text = b.text /\ a.type = b.type

DeepEqual(x, y) ==
    /\ Len(x) = Len(y)
    /\ \A i \in 1..Len(x) : ObjectDeepEqual(x[i], y[i])

(***************************************************************************)
(* useUndoRedo                                                             *)
(***************************************************************************)
maxHistoryDefault == 100

InitialHistory(initialState) ==
    [past |-> <<>>, present |-> initialState, future |-> <<>>]

\* bug variant: the deep comparison is missing, only identity is checked
setNoDeepCompare(current, resolvedPresent, sameRef, maxHistory) ==
    IF sameRef THEN current
    ELSE [past |-> SliceFrom(Append(current.past, current.present), -maxHistory),
          present |-> resolvedPresent,
          future |-> <<>>]

\* bug variant: future is kept on a new action
setKeepFuture(current, resolvedPresent, sameRef, maxHistory) ==
    IF sameRef \/ JSONStringify(resolvedPresent) = JSONStringify(current.present)
    THEN current
    ELSE [past |-> SliceFrom(Append(current.past, current.present), -maxHistory),
          present |-> resolvedPresent,
          future |-> current.future]

\* bug variant: the history keeps the oldest entries instead of the newest
setKeepOldest(current, resolvedPresent, sameRef, maxHistory) ==
    IF sameRef \/ JSONStringify(resolvedPresent) = JSONStringify(current.present)
    THEN current
    ELSE [past |-> SubSeq(Append(current.past, current.present), 1,
                          Min(maxHistory, Len(current.past) + 1)),
          present |-> resolvedPresent,
          future |-> <<>>]

\* set: the state updater of lines 30-62, applied to the resolved value.
\* sameRef says that resolvedPresent is the very object held in present.
set(current, resolvedPresent, sameRef, maxHistory) ==
    IF sameRef THEN current
    ELSE IF IsArray(resolvedPresent) /\ IsArray(current.present)
              /\ Len(resolvedPresent) = Len(current.present)
              /\ JSONStringify(resolvedPresent) = JSONStringify(current.present)
         THEN current
    ELSE IF ~(IsArray(resolvedPresent) /\ IsArray(current.present))
              /\ JSONStringify(resolvedPresent) = JSONStringify(current.present)
         THEN current
    ELSE [past |-> SliceFrom(Append(current.past, current.present), -maxHistory),
          present |-> resolvedPresent,
          future |-> <<>>]

\* bug variant: undo forgets to push the old present onto future
undoDropPresent(current) ==
    IF Len(current.past) = 0 THEN current
    ELSE [past |-> DropLast(current.past),
          present |-> current.past[Len(current.past)],
          future |-> current.future]

undo(current) ==
    IF Len(current.past) = 0 THEN current
    ELSE [past |-> DropLast(current.past),
          present |-> current.past[Len(current.past)],
          future |-> <<current.present>> \o current.future]

\* bug variant: redo pushes the old present onto the front of past
redoPushFront(current) ==
    IF Len(current.future) = 0 THEN current
    ELSE [past |-> <<current.present>> \o current.past,
          present |-> current.future[1],
          future |-> SliceFrom(current.future, 1)]

redo(current) ==
    IF Len(current.future) = 0 THEN current
    ELSE [past |-> Append(current.past, current.present),
          present |-> current.future[1],
          future |-> SliceFrom(current.future, 1)]

reset(newPresent) ==
    [past |-> <<>>, present |-> newPresent, future |-> <<>>]

(***************************************************************************)
(* History-only specification: the hook driven directly, with a small      *)
(* maxHistory option so that truncation happens.                           *)
(***************************************************************************)
HistoryAnnotation(i) == Annotation(i, "a", 0, 10, "", "interval")

\* Annotation[] values: the first k annotations, k = 0..HistoryIds
HistoryValue(k) == [i \in 1..k |-> HistoryAnnotation(i)]

HistoryValues == {HistoryValue(k) : k \in 0..HistoryIds}

\* Updater functions passed to set
Updaters == {"same", "copy", "append", "dropLast"}

ApplyUpdater(f, prev) ==
    CASE f = "same" -> prev                               \* (prev) => prev
      [] f = "copy" -> prev                               \* (prev) => [...prev]
      [] f = "append" -> IF Len(prev) < HistoryIds
                         THEN Append(prev, HistoryAnnotation(Len(prev) + 1))
                         ELSE prev
      [] f = "dropLast" -> DropLast(prev)                 \* prev.slice(0, -1)

\* waveformData = null
NoWaveform == [file |-> 0, duration |-> 0]

\* WaveformViewer after its first render without a file (error "none" is
\* null, file is the file prop the fetch effect last ran with)
WaveformIdle ==
    [waveformData |-> NoWaveform, isLoading |-> FALSE, error |-> "none",
     file |-> 0]

HomeIdle ==
    /\ waveformViewer = WaveformIdle /\ analyzing = <<>>
    /\ audioFile = 0 /\ duration = 0 /\ currentTime = 0
    /\ selectionStart = Null /\ selectionEnd = Null
    /\ zoomLevel = 1 /\ scrollX = 0
    /\ tierNames = <<>> /\ tierConfigs = <<>>
    /\ nextUUID = 0 /\ pending = {}

HInit ==
    /\ state = InitialHistory(<<>>)
    /\ before = InitialHistory(<<>>)
    /\ lastOp = [op |-> "init"]
    /\ thrown = "none"
    /\ HomeIdle

\* set(value): sameRef is possible only for the value held in present
HSetValue ==
    \E v \in HistoryValues, sameRef \in BOOLEAN :
        /\ sameRef => v = state.present
        /\ state' = set(state, v, sameRef, HistoryBound)
        /\ before' = state
        /\ lastOp' = [op |-> "set", value |-> v, sameRef |-> sameRef,
                      updater |-> "none"]
        /\ UNCHANGED <<thrown, homeVars>>

\* set(prev => ...): only (prev) => prev returns the object held in present
HSetUpdater ==
    \E f \in Updaters :
        /\ state' = set(state, ApplyUpdater(f, state.present), f = "same",
                        HistoryBound)
        /\ before' = state
        /\ lastOp' = [op |-> "set", value |-> ApplyUpdater(f, state.present),
                      sameRef |-> (f = "same"), updater |-> f]
        /\ UNCHANGED <<thrown, homeVars>>

HUndo ==
    /\ state' = undo(state)
    /\ before' = state
    /\ lastOp' = [op |-> "undo"]
    /\ UNCHANGED <<thrown, homeVars>>

HRedo ==
    /\ state' = redo(state)
    /\ before' = state
    /\ lastOp' = [op |-> "redo"]
    /\ UNCHANGED <<thrown, homeVars>>

HReset ==
    \E v \in HistoryValues :
        /\ state' = reset(v)
        /\ before' = state
        /\ lastOp' = [op |-> "reset"]
        /\ UNCHANGED <<thrown, homeVars>>

HNext == HSetValue \/ HSetUpdater \/ HUndo \/ HRedo \/ HReset

SpecHistory == HInit /\ [][HNext]_vars

(***************************************************************************)
(* Annotation files                                                        *)
(*                                                                         *)
(* The content of a TextGrid is a sequence of lines; a line is identified  *)
(* by what the parsers test on it (the prefix it starts with, or the bare  *)
(* value it holds) and carries its number or its quoted string.  An ELAN   *)
(* document is the list of its TIME_SLOT and TIER elements.                *)
(***************************************************************************)
Line(k, n, s) == [k |-> k, n |-> n, s |-> s]

Other(s) == Line("other", 0, s)        \* any line no parser rule tests for
EmptyLine == Line("empty", 0, "")      \* a blank line
XminLine(n) == Line("xmin", n, "")     \* xmin = n
XmaxLine(n) == Line("xmax", n, "")     \* xmax = n
NumberLine(n) == Line("time", n, "")   \* number = n, time = n
ItemLine(i) == Line("item", i, "")     \* item [i]:   (item []: for i = 0)
ClassLine(s) == Line("class", 0, s)    \* class = "s"
NameLine(s) == Line("name", 0, s)      \* name = "s"
RecordLine(i) == Line("record", i, "") \* intervals [i]:, points [i]:
TextLine(s) == Line("text", 0, s)      \* text = "s", mark = "s"
ValueLine(n) == Line("value", n, "")   \* short form: a bare number
StringLine(s) == Line("string", 0, s)  \* short form: a quoted string

\* File type = "ooTextFile" and Object class = "TextGrid"
OoTextFileLine == Other("File type = ooTextFile")
ObjectClassLine == Other("Object class = TextGrid")

FileTier(class, name, items) == [class |-> class, name |-> name, items |-> items]

Item(xmin, xmax, text) == [xmin |-> xmin, xmax |-> xmax, text |-> text]

RECURSIVE Flatten(_)
Flatten(ss) == IF ss = <<>> THEN <<>> ELSE Head(ss) \o Flatten(Tail(ss))

\* tier class -> tier type
TierTypeOfClass(class) ==
    IF class \in {"TextTier", "PointTier"} THEN "point" ELSE "interval"

\* the two header lines, present when the content has the TextGrid markers
HeaderLines(textGridMarker) ==
    IF textGridMarker THEN <<OoTextFileLine, ObjectClassLine, EmptyLine>>
    ELSE <<>>

\* long (key = value) form of a TextGrid as Praat writes it
LongRecord(tier, i) ==
    IF TierTypeOfClass(tier.class) = "point"
    THEN <<RecordLine(i), NumberLine(tier.items[i].xmin),
           TextLine(tier.items[i].text)>>
    ELSE <<RecordLine(i), XminLine(tier.items[i].xmin),
           XmaxLine(tier.items[i].xmax), TextLine(tier.items[i].text)>>

LongTier(xmax, tiers, t) ==
    <<ItemLine(t), ClassLine(tiers[t].class), NameLine(tiers[t].name),
      XminLine(0), XmaxLine(xmax), Other("size")>>
    \o Flatten([i \in 1..Len(tiers[t].items) |-> LongRecord(tiers[t], i)])

LongForm(textGridMarker, xmax, tiers) ==
    HeaderLines(textGridMarker)
    \o <<XminLine(0), XmaxLine(xmax), Other("tiers? <exists>"), Other("size"),
         ItemLine(0)>>
    \o Flatten([t \in 1..Len(tiers) |-> LongTier(xmax, tiers, t)])

\* short (positional) form of a TextGrid as Praat writes it; a bare number
\* is held in hundredths, so a count n is the value 100 * n
ShortRecord(tier, i) ==
    IF TierTypeOfClass(tier.class) = "point"
    THEN <<ValueLine(tier.items[i].xmin), StringLine(tier.items[i].text)>>
    ELSE <<ValueLine(tier.items[i].xmin), ValueLine(tier.items[i].xmax),
           StringLine(tier.items[i].text)>>

ShortTier(xmax, tiers, t) ==
    <<StringLine(tiers[t].class), StringLine(tiers[t].name),
      ValueLine(0), ValueLine(xmax), ValueLine(100 * Len(tiers[t].items))>>
    \o Flatten([i \in 1..Len(tiers[t].items) |-> ShortRecord(tiers[t], i)])

ShortForm(textGridMarker, xmax, tiers) ==
    HeaderLines(textGridMarker)
    \o <<ValueLine(0), ValueLine(xmax), Other("<exists>"), ValueLine(100 * Len(tiers))>>
    \o Flatten([t \in 1..Len(tiers) |-> ShortTier(xmax, tiers, t)])

\* A file: its extension, the markers its content contains, and its content.
\* AnnotationFile is a long-form TextGrid text with the given file-level
\* xmax and, per tier, the class, the name and the records.
AnnotationFile(extension, textGridMarker, annotationDocument, xmax, tiers) ==
    [extension |-> extension, textGridMarker |-> textGridMarker,
     annotationDocument |-> annotationDocument, tierTag |-> annotationDocument,
     xmax |-> xmax, tiers |-> tiers,
     lines |-> LongForm(textGridMarker, xmax, tiers),
     timeSlots |-> <<>>, elanTiers |-> <<>>]

\* the same file written in the short form
ShortFile(f) ==
    [f EXCEPT !.lines = ShortForm(f.textGridMarker, f.xmax, f.tiers)]

\* tones.TextGrid: point tier "a" with one point at 5
FilePointA ==
    AnnotationFile("textgrid", TRUE, FALSE, 15,
        <<FileTier("TextTier", "a", <<Item(5, 5, "")>>)>>)

\* reversed.TextGrid: interval tier "b" whose interval has xmin 10, xmax 5
FileReversedB ==
    AnnotationFile("textgrid", TRUE, FALSE, 15,
        <<FileTier("IntervalTier", "b", <<Item(10, 5, "")>>)>>)

\* notes.txt: neither a TextGrid nor an ELAN document
FileUnsupported ==
    AnnotationFile("txt", FALSE, FALSE, 15,
        <<FileTier("IntervalTier", "b", <<Item(0, 5, "x")>>)>>)

\* twice.TextGrid: two empty tiers that are both named "c"
FileTwiceC ==
    AnnotationFile("textgrid", TRUE, FALSE, 15,
        <<FileTier("IntervalTier", "c", <<>>), FileTier("TextTier", "c", <<>>)>>)

Files == {FilePointA, FileReversedB, FileUnsupported}

(***************************************************************************)
(* importParsers.ts                                                        *)
(***************************************************************************)
\* undefined and NaN (times and counts of a file are never negative)
Undefined == -2
NaN == -3

NoTier == [set |-> FALSE, name |-> "", type |-> "interval"]
NoFields == [xmin |-> Undefined, xmax |-> Undefined, hasText |-> FALSE, text |-> ""]

\* the parser's variables before the first line
LongStart ==
    [annotations |-> <<>>, tierConfigs |-> <<>>, duration |-> 0,
     currentTier |-> NoTier, currentInterval |-> NoFields,
     inItem |-> FALSE, inInterval |-> FALSE]

\* the property assignments one line makes to currentInterval
LongFields(cur, line) ==
    [xmin |-> IF line.k \in {"xmin", "time"} THEN line.n ELSE cur.xmin,
     xmax |-> IF line.k = "xmax" THEN line.n ELSE cur.xmax,
     hasText |-> cur.hasText \/ line.k = "text",
     text |-> IF line.k = "text" THEN line.s ELSE cur.text]

\* one iteration of the loop over the lines
LongStep(st, line) ==
    LET st1 == IF line.k = "xmax" /\ ~st.inItem
               THEN [st EXCEPT !.duration = line.n] ELSE st
        st2 == IF line.k = "class"
               THEN [st1 EXCEPT !.currentTier =
                        [set |-> TRUE, name |-> "", type |-> TierTypeOfClass(line.s)]]
               ELSE st1
        st3 == IF line.k = "name" /\ st2.currentTier.set
               THEN [st2 EXCEPT !.currentTier.name = line.s,
                                !.tierConfigs =
                                    Append(@, [name |-> line.s,
                                               type |-> st2.currentTier.type])]
               ELSE st2
        cur == LongFields(st3.currentInterval, line)
        isPoint == st3.currentTier.type = "point"
        hasRequiredFields ==
            IF isPoint THEN cur.xmin # Undefined /\ cur.hasText
            ELSE cur.xmin # Undefined /\ cur.xmax # Undefined /\ cur.hasText
    IN  IF line.k = "item"
        THEN [st1 EXCEPT !.inItem = TRUE, !.currentTier = NoTier]
        ELSE IF ~st1.inItem THEN st1
        ELSE IF line.k = "record"
        THEN [st3 EXCEPT !.inInterval = TRUE, !.currentInterval = NoFields]
        ELSE IF ~(st3.inInterval /\ st3.currentTier.set) THEN st3
        ELSE IF hasRequiredFields
        THEN [st3 EXCEPT !.annotations =
                            Append(@, [tier |-> st3.currentTier.name,
                                       start |-> cur.xmin,
                                       end |-> IF isPoint THEN cur.xmin ELSE cur.xmax,
                                       text |-> cur.text,
                                       type |-> st3.currentTier.type]),
                         !.inInterval = FALSE,
                         !.currentInterval = NoFields]
        ELSE [st3 EXCEPT !.currentInterval = cur]

\* for (const line of lines): the iterations over the first half of the
\* lines, then, from the state they leave, those over the second half
RECURSIVE LongLoop(_, _)
LongLoop(st, lines) ==
    IF lines = <<>> THEN st
    ELSE IF Len(lines) = 1 THEN LongStep(st, lines[1])
    ELSE LET mid == Len(lines) \div 2
         IN  CHOOSE r \in {LongLoop(half, SubSeq(lines, mid + 1, Len(lines))) :
                             half \in {LongLoop(st, SubSeq(lines, 1, mid))}} : TRUE

parseTextGridLong(lines) ==
    LET st == LongLoop(LongStart, lines)
    IN  [ok |-> TRUE, annotations |-> st.annotations,
         tierConfigs |-> st.tierConfigs, duration |-> st.duration]

\* lines[lineIndex] for the 1-based position p = lineIndex + 1
LineAt(lines, p) ==
    IF p <= Len(lines) THEN lines[p] ELSE Line("undefined", 0, "")

\* decimal text of a number
NumberText(n) == ToString(n)

\* parseFloat(lines[i]?.trim() || '0'); bare numbers are held in hundredths
ParseFloat(line) ==
    IF line.k \in {"undefined", "empty"} THEN 0
    ELSE IF line.k = "value" THEN line.n ELSE NaN

\* parseInt(lines[i]?.trim() || '0', 10)
ParseInt(line) ==
    IF line.k \in {"undefined", "empty"} THEN 0
    ELSE IF line.k = "value" THEN line.n \div 100 ELSE NaN

\* lines[i]?.trim().replace(/^"|"$/g, '') || ''
LineText(line) ==
    IF line.k \in {"undefined", "empty"} THEN ""
    ELSE IF line.k = "value" THEN NumberText(line.n) ELSE line.s

DefaultTierNames == <<"Tier 1", "Tier 2", "Tier 3", "Tier 4">>

\* i < n for a count n that may be NaN
Below(i, n) == n # NaN /\ i < n

RECURSIVE SkipUntilTextGrid(_, _)
SkipUntilTextGrid(lines, p) ==
    IF p <= Len(lines) /\ lines[p] # ObjectClassLine
    THEN SkipUntilTextGrid(lines, p + 1) ELSE p

RECURSIVE SkipEmpty(_, _)
SkipEmpty(lines, p) ==
    IF p <= Len(lines) /\ lines[p].k = "empty" THEN SkipEmpty(lines, p + 1) ELSE p

\* the loop over the records of one tier; gives the annotations and the
\* position of the line after them
RECURSIVE ShortItems(_, _, _, _, _, _, _)
ShortItems(lines, p, i, numIntervals, tierType, tierName, anns) ==
    IF ~(Below(i, numIntervals) /\ p <= Len(lines))
    THEN [p |-> p, annotations |-> anns]
    ELSE IF tierType = "interval"
    THEN ShortItems(lines, p + 3, i + 1, numIntervals, tierType, tierName,
            Append(anns, [tier |-> tierName,
                          start |-> ParseFloat(LineAt(lines, p)),
                          end |-> ParseFloat(LineAt(lines, p + 1)),
                          text |-> LineText(LineAt(lines, p + 2)),
                          type |-> "interval"]))
    ELSE ShortItems(lines, p + 2, i + 1, numIntervals, tierType, tierName,
            Append(anns, [tier |-> tierName,
                          start |-> ParseFloat(LineAt(lines, p)),
                          end |-> ParseFloat(LineAt(lines, p)),
                          text |-> LineText(LineAt(lines, p + 1)),
                          type |-> "point"]))

\* the loop over the tiers
RECURSIVE ShortTiers(_, _, _, _, _)
ShortTiers(lines, p, tierIdx, numTiers, acc) ==
    IF ~(Below(tierIdx, numTiers) /\ p <= Len(lines)) THEN acc
    ELSE LET q == SkipEmpty(lines, p)
             tierType == TierTypeOfClass(LineText(LineAt(lines, q)))
             typed == LineText(LineAt(lines, q + 1))
             tierName == IF typed = "" THEN DefaultTierNames[tierIdx + 1] ELSE typed
             numIntervals == ParseInt(LineAt(lines, q + 4))
             items == ShortItems(lines, q + 5, 0, numIntervals, tierType,
                                 tierName, <<>>)
         IN  ShortTiers(lines, items.p, tierIdx + 1, numTiers,
                [acc EXCEPT !.tierConfigs =
                                Append(@, [name |-> tierName, type |-> tierType]),
                            !.annotations = @ \o items.annotations])

parseTextGridShort(lines) ==
    LET afterHeader == SkipEmpty(lines, SkipUntilTextGrid(lines, 1) + 1)
        xmaxAt == afterHeader + 1
        read == ParseFloat(LineAt(lines, xmaxAt))
        fileXmax == IF xmaxAt <= Len(lines) /\ read # NaN THEN read ELSE 0
        existsAt == IF xmaxAt <= Len(lines) THEN xmaxAt + 1 ELSE xmaxAt
        numTiers == ParseInt(LineAt(lines, existsAt + 1))
    IN  ShortTiers(lines, existsAt + 2, 0, numTiers,
            [ok |-> TRUE, annotations |-> <<>>, tierConfigs |-> <<>>,
             duration |-> fileXmax])

\* !content.includes('xmin =')
isShortFormat(lines) == \A i \in 1..Len(lines) : lines[i].k # "xmin"

parseTextGrid(f) ==
    IF isShortFormat(f.lines) THEN parseTextGridShort(f.lines)
    ELSE parseTextGridLong(f.lines)

\* <TIME_SLOT TIME_SLOT_ID=id TIME_VALUE=value/>; value Undefined when the
\* attribute is missing
TimeSlot(id, value) == [id |-> id, value |-> value]

\* <TIER TIER_ID=name> with its ALIGNABLE_ANNOTATIONs (the two slot
\* references and the value; a reference is "" when the attribute is
\* missing) and the values of its REF_ANNOTATIONs
ELANTier(name, items, refs) == [name |-> name, items |-> items, refs |-> refs]

Alignable(ref1, ref2, text) == [ref1 |-> ref1, ref2 |-> ref2, text |-> text]

\* An ELAN document
ELANFile(extension, annotationDocument, timeSlots, elanTiers) ==
    [extension |-> extension, textGridMarker |-> FALSE,
     annotationDocument |-> annotationDocument, tierTag |-> elanTiers # <<>>,
     xmax |-> 0, tiers |-> <<>>, lines |-> <<>>,
     timeSlots |-> timeSlots, elanTiers |-> elanTiers]

\* timeSlots.has(id) and timeSlots.get(id) of the map built from the
\* TIME_SLOT elements that have both attributes (a later one replaces an
\* earlier one of the same id)
SlotDefined(timeSlots, id) ==
    \E i \in 1..Len(timeSlots) :
        timeSlots[i].id = id /\ id # "" /\ timeSlots[i].value # Undefined

SlotValue(timeSlots, id) ==
    timeSlots[CHOOSE i \in 1..Len(timeSlots) :
                /\ timeSlots[i].id = id /\ timeSlots[i].value # Undefined
                /\ \A j \in (i + 1)..Len(timeSlots) :
                      ~(timeSlots[j].id = id /\ timeSlots[j].value # Undefined)].value

\* timeSlots.get(ref) || 0
SlotOrZero(timeSlots, ref) ==
    IF SlotDefined(timeSlots, ref) THEN SlotValue(timeSlots, ref) ELSE 0

\* The annotation emitted for one ALIGNABLE_ANNOTATION
ELANRecord(timeSlots, tierName, item) ==
    LET start == SlotOrZero(timeSlots, item.ref1)
        end == SlotOrZero(timeSlots, item.ref2)
    IN  [tier |-> tierName, start |-> start, end |-> end, text |-> item.text,
         type |-> IF start = end THEN "point" ELSE "interval"]

RECURSIVE SeqMax(_)
SeqMax(s) == IF s = <<>> THEN 0 ELSE Max(Head(s), SeqMax(Tail(s)))

\* config.type = 'point' on tierConfigs.find((c) => c.name === tierName)
MarkPoint(configs, tierName) ==
    [i \in 1..Len(configs) |->
        IF configs[i].name = tierName
           /\ \A j \in 1..(i - 1) : configs[j].name # tierName
        THEN [configs[i] EXCEPT !.type = "point"] ELSE configs[i]]

\* bug variant: the declaration keeps the type it was pushed with
ELANTierStepNoMark(acc, timeSlots, tier) ==
    LET tierName == IF tier.name = "" THEN "Unknown" ELSE tier.name
        hasRefs(item) == item.ref1 # "" /\ item.ref2 # ""
        aligned == [i \in 1..Len(SelectSeq(tier.items, hasRefs)) |->
                       ELANRecord(timeSlots, tierName,
                                  SelectSeq(tier.items, hasRefs)[i])]
        hasText(text) == text # ""
        referring == [i \in 1..Len(SelectSeq(tier.refs, hasText)) |->
                         [tier |-> tierName, start |-> 0, end |-> 0,
                          text |-> SelectSeq(tier.refs, hasText)[i],
                          type |-> "interval"]]
    IN  [acc EXCEPT !.tierConfigs = Append(@, [name |-> tierName, type |-> "interval"]),
                    !.annotations = @ \o aligned \o referring]

\* one iteration of tierElements.forEach
ELANTierStep(acc, timeSlots, tier) ==
    LET tierName == IF tier.name = "" THEN "Unknown" ELSE tier.name
        hasRefs(item) == item.ref1 # "" /\ item.ref2 # ""
        aligned == [i \in 1..Len(SelectSeq(tier.items, hasRefs)) |->
                       ELANRecord(timeSlots, tierName,
                                  SelectSeq(tier.items, hasRefs)[i])]
        hasText(text) == text # ""
        referring == [i \in 1..Len(SelectSeq(tier.refs, hasText)) |->
                         [tier |-> tierName, start |-> 0, end |-> 0,
                          text |-> SelectSeq(tier.refs, hasText)[i],
                          type |-> "interval"]]
        pushed == Append(acc.tierConfigs, [name |-> tierName, type |-> "interval"])
    IN  [acc EXCEPT !.tierConfigs =
                        IF \E i \in 1..Len(aligned) : aligned[i].type = "point"
                        THEN MarkPoint(pushed, tierName) ELSE pushed,
                    !.annotations = @ \o aligned \o referring]

RECURSIVE ELANTiers(_, _, _)
ELANTiers(acc, timeSlots, tiers) ==
    IF tiers = <<>> THEN acc
    ELSE ELANTiers(ELANTierStep(acc, timeSlots, Head(tiers)), timeSlots, Tail(tiers))

parseELANXML(f) ==
    LET defined(slot) == slot.id # "" /\ slot.value # Undefined
    IN  ELANTiers([ok |-> TRUE, annotations |-> <<>>, tierConfigs |-> <<>>,
                   duration |->
                       SeqMax([i \in 1..Len(SelectSeq(f.timeSlots, defined)) |->
                                  SelectSeq(f.timeSlots, defined)[i].value])],
                  f.timeSlots, f.elanTiers)

\* throw new Error(`Unsupported file format: ...`)
UnsupportedFormat ==
    [ok |-> FALSE, annotations |-> <<>>, tierConfigs |-> <<>>, duration |-> 0]

\* the parser parseAnnotationFile hands the content to
detectFormat(f) ==
    IF f.extension = "textgrid" THEN "TextGrid"
    ELSE IF f.extension \in {"eaf", "xml"} /\ (f.annotationDocument \/ f.tierTag)
         THEN "ELAN"
    ELSE IF f.textGridMarker THEN "TextGrid"
    ELSE IF f.annotationDocument THEN "ELAN"
    ELSE "unsupported"

parseAnnotationFile(f) ==
    IF detectFormat(f) = "TextGrid" THEN parseTextGrid(f)
    ELSE IF detectFormat(f) = "ELAN" THEN parseELANXML(f)
    ELSE UnsupportedFormat

(***************************************************************************)
(* HomePage                                                                *)
(***************************************************************************)
\* 0.05 s: half width of the segment created by a double click
HalfSegment == 5
Times == {5 * k : k \in 0..MaxTick}

TierNamePool == <<"a", "b", "c", "d">>
TypedTierNames == {TierNamePool[i] : i \in 1..MaxTierNames}

TierTypes == {"interval", "point"}

\* texts typed into a segment
Texts == {"x"}

AudioFiles == {1}

\* audio.duration of each audio file
AudioDuration(file) == 10

annotations == state.present
canUndo == Len(state.past) > 0
canRedo == Len(state.future) > 0

SeqToSet(s) == {s[i] : i \in 1..Len(s)}

RECURSIVE Dedup(_, _)
Dedup(s, seen) ==
    IF s = <<>> THEN <<>>
    ELSE IF Head(s) \in seen THEN Dedup(Tail(s), seen)
    ELSE <<Head(s)>> \o Dedup(Tail(s), seen \cup {Head(s)})

\* [...new Set([...tierNames, ...annotations.map((a) => a.tier)])]
allTiers ==
    Dedup(tierNames \o [i \in 1..Len(annotations) |-> annotations[i].tier], {})

\* AnnotationPanel.getTierType
getTierType(tierName) ==
    IF \E i \in 1..Len(tierConfigs) : tierConfigs[i].name = tierName
    THEN tierConfigs[CHOOSE i \in 1..Len(tierConfigs) :
                        /\ tierConfigs[i].name = tierName
                        /\ \A j \in 1..(i - 1) : tierConfigs[j].name # tierName].type
    ELSE "interval"

Field(u, k, d) == IF k \in DOMAIN u THEN u[k] ELSE d

\* { ...a, ...updates }: the properties of a keep their position
Spread(a, updates) ==
    [keys |-> a.keys,
     id |-> Field(updates, "id", a.id),
     tier |-> Field(updates, "tier", a.tier),
     start |-> Field(updates, "start", a.start),
     end |-> Field(updates, "end", a.end),
     text |-> Field(updates, "text", a.text),
     type |-> Field(updates, "type", a.type)]

HomeInit ==
    /\ state = InitialHistory(<<>>)
    /\ before = InitialHistory(<<>>)
    /\ lastOp = [op |-> "init"]
    /\ thrown = "none"
    /\ HomeIdle

cursorVars == <<currentTime, selectionStart, selectionEnd>>
viewVars == <<zoomLevel, scrollX>>
waveVars == <<waveformViewer, analyzing>>
tierVars == <<tierNames, tierConfigs>>

\* bug variant: the timeline is emptied by an undoable set
handleFileOpenUndoable(file) ==
    /\ audioFile' = file
    /\ state' = set(state, <<>>, FALSE, maxHistoryDefault)
    /\ tierNames' = <<>>
    /\ tierConfigs' = <<>>
    /\ currentTime' = 0
    /\ selectionStart' = Null
    /\ selectionEnd' = Null
    /\ zoomLevel' = 1
    /\ scrollX' = 0
    /\ thrown' = "none"
    /\ UNCHANGED <<duration, nextUUID, pending, waveVars>>

handleFileOpen(file) ==
    /\ audioFile' = file
    /\ state' = reset(<<>>)
    /\ tierNames' = <<>>
    /\ tierConfigs' = <<>>
    /\ currentTime' = 0
    /\ selectionStart' = Null
    /\ selectionEnd' = Null
    /\ zoomLevel' = 1
    /\ scrollX' = 0
    /\ thrown' = "none"
    /\ UNCHANGED <<duration, nextUUID, pending, waveVars>>

handleSelectionChange(start, end) ==
    /\ IF start = end
       THEN selectionStart' = Null /\ selectionEnd' = Null
       ELSE selectionStart' = Min(start, end) /\ selectionEnd' = Max(start, end)
    /\ thrown' = "none"
    /\ UNCHANGED <<state, audioFile, duration, viewVars, tierVars,
                   nextUUID, pending, waveVars>>

handleAnnotationCreate(tier, start, end, type) ==
    LET newAnnotation == Annotation(nextUUID + 1, tier, start, end, "", type)
    IN  /\ state' = set(state, Append(annotations, newAnnotation), FALSE,
                        maxHistoryDefault)
        /\ nextUUID' = nextUUID + 1
        /\ thrown' = "none"
        /\ UNCHANGED <<audioFile, duration, cursorVars, viewVars, tierVars,
                       pending, waveVars>>

handleAnnotationUpdate(id, updates) ==
    /\ state' = set(state,
                    [i \in 1..Len(annotations) |->
                        IF annotations[i].id = id
                        THEN Spread(annotations[i], updates)
                        ELSE annotations[i]],
                    FALSE, maxHistoryDefault)
    /\ thrown' = "none"
    /\ UNCHANGED homeVars

\* bug variant: every delete is recorded in the history
handleAnnotationDeleteAlwaysPush(id) ==
    LET keep(a) == a.id # id
    IN  /\ state' = [past |-> Append(state.past, state.present),
                     present |-> SelectSeq(annotations, keep),
                     future |-> <<>>]
        /\ thrown' = "none"
        /\ UNCHANGED homeVars

handleAnnotationDelete(id) ==
    LET keep(a) == a.id # id
    IN  /\ state' = set(state, SelectSeq(annotations, keep), FALSE,
                        maxHistoryDefault)
        /\ thrown' = "none"
        /\ UNCHANGED homeVars

handleAddTier(name, type) ==
    /\ tierNames' = IF name \in SeqToSet(tierNames) THEN tierNames
                    ELSE Append(tierNames, name)
    /\ tierConfigs' = IF \E i \in 1..Len(tierConfigs) : tierConfigs[i].name = name
                      THEN tierConfigs
                      ELSE Append(tierConfigs, [name |-> name, type |-> type])
    /\ thrown' = "none"
    /\ UNCHANGED <<state, audioFile, duration, cursorVars, viewVars,
                   nextUUID, pending, waveVars>>

\* ids given by crypto.randomUUID() while the parser builds its result
WithIds(anns, first) ==
    [i \in 1..Len(anns) |->
        Annotation(first + i, anns[i].tier, anns[i].start, anns[i].end,
                   anns[i].text, anns[i].type)]

\* bug variant: a tier the file declares again replaces the existing
\* declaration
handleAnnotationImportOverwrite(result, closureDuration) ==
    LET imported == WithIds(result.annotations, nextUUID)
        declared == {result.tierConfigs[i].name : i \in 1..Len(result.tierConfigs)}
        kept(c) == c.name \notin declared
        keptName(n) == n \notin declared
    IN  /\ state' = set(state, annotations \o imported, FALSE, maxHistoryDefault)
        /\ nextUUID' = nextUUID + Len(imported)
        /\ tierConfigs' = SelectSeq(tierConfigs, kept) \o result.tierConfigs
        /\ tierNames' = SelectSeq(tierNames, keptName) \o
              [i \in 1..Len(result.tierConfigs) |-> result.tierConfigs[i].name]
        /\ duration' = IF result.duration > closureDuration
                       THEN result.duration ELSE duration
        /\ thrown' = "none"
        /\ UNCHANGED <<audioFile, cursorVars, viewVars>>

\* handleAnnotationImport as created by the render in which duration had the
\* value closureDuration
handleAnnotationImport(result, closureDuration) ==
    LET imported == WithIds(result.annotations, nextUUID)
        existingConfigs == {tierConfigs[i].name : i \in 1..Len(tierConfigs)}
        newConfig(c) == c.name \notin existingConfigs
        existingNames == SeqToSet(tierNames)
        newName(n) == n \notin existingNames
    IN  /\ state' = set(state, annotations \o imported, FALSE, maxHistoryDefault)
        /\ nextUUID' = nextUUID + Len(imported)
        /\ tierConfigs' = tierConfigs \o SelectSeq(result.tierConfigs, newConfig)
        /\ tierNames' = tierNames \o
              SelectSeq([i \in 1..Len(result.tierConfigs) |->
                          result.tierConfigs[i].name], newName)
        /\ duration' = IF result.duration > closureDuration
                       THEN result.duration ELSE duration
        /\ thrown' = "none"
        /\ UNCHANGED <<audioFile, cursorVars, viewVars>>

\* Array.prototype.sort((a, b) => a.start - b.start): stable, by start
RECURSIVE InsertByStart(_, _)
InsertByStart(sorted, a) ==
    IF sorted = <<>> THEN <<a>>
    ELSE IF Last(sorted).start <= a.start THEN Append(sorted, a)
    ELSE Append(InsertByStart(DropLast(sorted), a), Last(sorted))

RECURSIVE SortByStart(_)
SortByStart(anns) ==
    IF anns = <<>> THEN <<>>
    ELSE InsertByStart(SortByStart(DropLast(anns)), Last(anns))

\* the lines handleExport pushes for one tier
ExportTier(tierName, tierIdx) ==
    LET onTier(a) == a.tier = tierName
        tierAnnotations == SortByStart(SelectSeq(annotations, onTier))
    IN  <<ItemLine(tierIdx), ClassLine("IntervalTier"), NameLine(tierName),
          XminLine(0), XmaxLine(duration), Other("intervals: size")>>
        \o Flatten([i \in 1..Len(tierAnnotations) |->
                       <<RecordLine(i), XminLine(tierAnnotations[i].start),
                         XmaxLine(tierAnnotations[i].end),
                         TextLine(tierAnnotations[i].text)>>])

\* handleExport('textgrid'): the downloaded file annotations.TextGrid
handleExport(format) ==
    [extension |-> format, textGridMarker |-> TRUE,
     annotationDocument |-> FALSE, tierTag |-> FALSE,
     xmax |-> duration, tiers |-> <<>>,
     lines |-> <<OoTextFileLine, ObjectClassLine, EmptyLine, XminLine(0),
                 XmaxLine(duration), Other("tiers? <exists>"), Other("size"),
                 ItemLine(0)>>
               \o Flatten([t \in 1..Len(allTiers) |-> ExportTier(allTiers[t], t)]),
     timeSlots |-> <<>>, elanTiers |-> <<>>]

(***************************************************************************)
(* User events                                                             *)
(***************************************************************************)
keyboardEnabled == audioFile # 0
panelVisible == duration # 0
roomInPast == Len(state.past) < MaxPast

\* Toolbar.handleFileChange / handleOpenClick
FileOpen ==
    \E file \in AudioFiles :
        /\ handleFileOpen(file)
        /\ lastOp' = [op |-> "fileOpen"]
        /\ UNCHANGED before

\* AudioPlayer.handleLoadedMetadata
LoadedMetadata ==
    /\ audioFile # 0
    /\ duration' = AudioDuration(audioFile)
    /\ lastOp' = [op |-> "loadedMetadata"]
    /\ UNCHANGED before
    /\ thrown' = "none"
    /\ UNCHANGED <<state, audioFile, cursorVars, viewVars, tierVars,
                   nextUUID, pending, waveVars>>

\* pointer drag on the waveform or the spectrogram
PointerDrag ==
    \E dragStart \in Times, time \in Times :
        /\ audioFile # 0
        /\ handleSelectionChange(dragStart, time)
        /\ lastOp' = [op |-> "selectionChange"]
        /\ UNCHANGED before
        /\ UNCHANGED currentTime

\* Ctrl + Enter
CreateFromSelection ==
    /\ keyboardEnabled
    /\ selectionStart # Null /\ selectionEnd # Null /\ Len(allTiers) > 0
    /\ nextUUID < MaxUUID /\ roomInPast
    /\ handleAnnotationCreate(allTiers[1], selectionStart, selectionEnd, "interval")
    /\ lastOp' = [op |-> "create", from |-> "keyboard"]
    /\ UNCHANGED before

\* Tier.handleDoubleClick
TierDoubleClick ==
    \E n \in 1..Len(allTiers), time \in Times :
        LET name == allTiers[n]
            tierType == getTierType(name)
            start == IF tierType = "point" THEN time ELSE Max(0, time - HalfSegment)
            end == IF tierType = "point" THEN time ELSE time + HalfSegment
        IN  /\ panelVisible
            /\ nextUUID < MaxUUID /\ roomInPast
            /\ handleAnnotationCreate(name, start, end, tierType)
            /\ lastOp' = [op |-> "create", from |-> "pointer"]
            /\ UNCHANGED before

\* Segment.handleBlur
SegmentBlur ==
    \E i \in 1..Len(annotations), editText \in Texts :
        /\ panelVisible
        /\ roomInPast
        /\ editText # annotations[i].text
        /\ handleAnnotationUpdate(annotations[i].id, [text |-> editText])
        /\ lastOp' = [op |-> "update"]
        /\ UNCHANGED before

\* Segment.handleKeyDown (Delete / Backspace)
SegmentDelete ==
    \E i \in 1..Len(annotations) :
        /\ panelVisible
        /\ roomInPast
        /\ handleAnnotationDelete(annotations[i].id)
        /\ lastOp' = [op |-> "delete"]
        /\ UNCHANGED before

\* AnnotationPanel.handleAddTier
AddTier ==
    \E name \in TypedTierNames, type \in TierTypes :
        /\ panelVisible
        /\ name \notin SeqToSet(allTiers)
        /\ handleAddTier(name, type)
        /\ lastOp' = [op |-> "addTier"]
        /\ UNCHANGED before

\* bug variant: the tier declarations are part of what undo restores
UndoWithTiers ==
    /\ keyboardEnabled /\ canUndo
    /\ state' = undo(state)
    /\ tierNames' = <<>> /\ tierConfigs' = <<>>
    /\ lastOp' = [op |-> "undo"]
    /\ UNCHANGED before
    /\ thrown' = "none"
    /\ UNCHANGED <<audioFile, duration, cursorVars, viewVars, nextUUID, pending,
                   waveVars>>

\* Ctrl + Z
Undo ==
    /\ keyboardEnabled /\ canUndo
    /\ state' = undo(state)
    /\ lastOp' = [op |-> "undo"]
    /\ UNCHANGED before
    /\ thrown' = "none"
    /\ UNCHANGED homeVars

\* Ctrl + Shift + Z, Ctrl + Y
Redo ==
    /\ keyboardEnabled /\ canRedo
    /\ state' = redo(state)
    /\ lastOp' = [op |-> "redo"]
    /\ UNCHANGED before
    /\ thrown' = "none"
    /\ UNCHANGED homeVars

\* Toolbar.handleAnnotationImport up to its first await: the handler keeps
\* the onAnnotationImport of the current render (startedOn remembers the
\* audio file that was open at that moment)
ImportStart ==
    \E file \in Files :
        /\ Cardinality(pending) < MaxPending
        /\ pending' = pending \cup {[file |-> file, closureDuration |-> duration,
                                     startedOn |-> audioFile]}
        /\ lastOp' = [op |-> "importStart"]
        /\ UNCHANGED before
        /\ thrown' = "none"
        /\ UNCHANGED <<state, audioFile, duration, cursorVars, viewVars,
                       tierVars, nextUUID, waveVars>>

\* Toolbar.handleAnnotationImport after the awaits: parse, then merge
ImportDone ==
    \E p \in pending :
        LET result == parseAnnotationFile(p.file)
        IN  /\ result.ok
            /\ nextUUID + Len(result.annotations) <= MaxUUID
            /\ Len(result.annotations) > 0 => roomInPast
            /\ handleAnnotationImport(result, p.closureDuration)
            /\ pending' = pending \ {p}
            /\ lastOp' = [op |-> "import", file |-> p.file,
                          startedOn |-> p.startedOn]
            /\ UNCHANGED <<before, waveVars>>

\* bug variant: the tiers read before the error are merged into the store
ImportFailedPartialMerge ==
    \E p \in pending :
        /\ ~parseAnnotationFile(p.file).ok
        /\ pending' = pending \ {p}
        /\ thrown' = "Unsupported file format"
        /\ tierNames' = tierNames \o
              [t \in 1..Len(p.file.tiers) |-> p.file.tiers[t].name]
        /\ lastOp' = [op |-> "importFailed", file |-> p.file]
        /\ UNCHANGED before
        /\ UNCHANGED <<state, audioFile, duration, cursorVars, viewVars,
                       tierConfigs, nextUUID, waveVars>>

\* Toolbar.handleAnnotationImport after the awaits: the parser throws and
\* the catch block reports the error
ImportFailed ==
    \E p \in pending :
        /\ ~parseAnnotationFile(p.file).ok
        /\ pending' = pending \ {p}
        /\ thrown' = "Unsupported file format"
        /\ lastOp' = [op |-> "importFailed", file |-> p.file]
        /\ UNCHANGED before
        /\ UNCHANGED <<state, audioFile, duration, cursorVars, viewVars,
                       tierVars, nextUUID, waveVars>>

Next ==
    \/ FileOpen \/ LoadedMetadata \/ PointerDrag
    \/ CreateFromSelection \/ TierDoubleClick \/ SegmentBlur \/ SegmentDelete
    \/ AddTier \/ Undo \/ Redo \/ ImportStart \/ ImportDone \/ ImportFailed

Spec == HomeInit /\ [][Next]_vars

(***************************************************************************)
(* Properties of the history hook (checked under SpecHistory)              *)
(***************************************************************************)
\* past ++ [present] ++ future
Timeline(h) == h.past \o <<h.present>> \o h.future

\* C1: a set whose value is deep-equal to the present (a direct value or the
\* result of an updater, and not the same object) leaves past, present and
\* future unchanged; after any set the present is deep-equal to the value
\* that was set, so a second set of the same value is such a no-op.
C1_SetEqualIsNoOp ==
    lastOp.op = "set" =>
        /\ DeepEqual(lastOp.value, before.present) => state = before
        /\ DeepEqual(state.present, lastOp.value)
        /\ set(state, lastOp.value, FALSE, HistoryBound) = state

\* a copy of the present was set while both stacks were non-empty
C1_Witness ==
    /\ lastOp.op = "set" /\ ~lastOp.sameRef
    /\ DeepEqual(lastOp.value, before.present)
    /\ Len(before.past) > 0 /\ Len(before.future) > 0

\* C2: undo moves the present one position back and redo one position
\* forward along past ++ [present] ++ future, which neither changes; with
\* nothing to undo (redo) the state is unchanged.
C2_UndoRedoMoveOnePosition ==
    /\ lastOp.op = "undo" =>
          IF Len(before.past) = 0 THEN state = before
          ELSE /\ state.present = Last(before.past)
               /\ state.past = SubSeq(before.past, 1, Len(before.past) - 1)
               /\ state.future = <<before.present>> \o before.future
    /\ lastOp.op = "redo" =>
          IF Len(before.future) = 0 THEN state = before
          ELSE /\ state.present = Head(before.future)
               /\ state.past = before.past \o <<before.present>>
               /\ state.future = Tail(before.future)
    /\ lastOp.op \in {"undo", "redo"} => Timeline(state) = Timeline(before)

\* an undo happened in the middle of the timeline
C2_Witness ==
    /\ lastOp.op = "undo"
    /\ Len(before.past) > 1 /\ Len(before.future) > 0

\* C3: after an effective undo an immediate redo gives back the state
\* before the undo, and after an effective redo an immediate undo gives
\* back the state before the redo.
C3_UndoRedoRoundTrip ==
    /\ (lastOp.op = "undo" /\ Len(before.past) > 0) => redo(state) = before
    /\ (lastOp.op = "redo" /\ Len(before.future) > 0) => undo(state) = before
    /\ Len(state.past) > 0 => redo(undo(state)) = state
    /\ Len(state.future) > 0 => undo(redo(state)) = state

\* a redo that put back what the preceding state's undo would remove
C3_Witness ==
    /\ lastOp.op = "redo" /\ Len(before.future) > 1
    /\ Len(before.past) > 0
    /\ undo(state) = before

\* C4: a set whose value is not deep-equal to the present makes the old
\* present the last entry of past, makes the value the present and empties
\* future, so a redo changes nothing and one undo shows the old present.
C4_EffectiveSetPushes ==
    (lastOp.op = "set" /\ ~DeepEqual(lastOp.value, before.present)) =>
        /\ state.present = lastOp.value
        /\ state.future = <<>>
        /\ Len(state.past) > 0 /\ Last(state.past) = before.present
        /\ Len(before.past) < HistoryBound =>
              state.past = Append(before.past, before.present)
        /\ redo(state) = state
        /\ undo(state).present = before.present

\* an effective set happened while there was something to redo
C4_Witness ==
    /\ lastOp.op = "set" /\ ~DeepEqual(lastOp.value, before.present)
    /\ Len(before.future) > 0 /\ Len(before.past) > 0

\* C5: past never holds more than maxHistory entries, whatever the
\* operation; a set on a full past drops the oldest entry and keeps the
\* others in order.
C5_PastBounded ==
    /\ Len(state.past) <= HistoryBound
    /\ (lastOp.op = "set" /\ state # before
            /\ Len(before.past) = HistoryBound) =>
          state.past = Tail(before.past) \o <<before.present>>

\* a set pushed onto a full past
C5_Witness ==
    /\ lastOp.op = "set" /\ state # before
    /\ Len(before.past) = HistoryBound
    /\ before.past[1] # before.past[2]

\* C26: no two adjacent entries of past ++ [present] ++ future are
\* deep-equal, and an undo or a redo that is not a no-op changes the
\* present value.
C26_NoAdjacentDuplicates ==
    /\ \A i \in 1..(Len(Timeline(state)) - 1) :
          ~DeepEqual(Timeline(state)[i], Timeline(state)[i + 1])
    /\ (lastOp.op \in {"undo", "redo"} /\ state # before) =>
          ~DeepEqual(state.present, before.present)

\* an undo has moved the present of a full history into future
C26_Witness ==
    /\ lastOp.op = "undo" /\ state # before
    /\ Len(before.past) = HistoryBound
    /\ state.future = <<before.present>>
    /\ Len(Timeline(state)) = HistoryBound + 1

(***************************************************************************)
(* Operation surface: the handlers called directly with any arguments      *)
(***************************************************************************)
\* partial field sets given to updateAnnotation
ApiUpdates ==
    {[text |-> "x"]} \cup {[start |-> t] : t \in Times}
                     \cup {[end |-> t] : t \in Times}

\* createAnnotation(tier, start, end, type)
ApiCreate ==
    \E tier \in TypedTierNames, start \in Times, end \in Times, type \in TierTypes :
        /\ nextUUID < MaxUUID /\ roomInPast
        /\ handleAnnotationCreate(tier, start, end, type)
        /\ before' = state
        /\ lastOp' = [op |-> "createAnnotation", start |-> start, end |-> end,
                      type |-> type]

\* updateAnnotation(id, partialFields)
ApiUpdate ==
    \E id \in 1..MaxUUID, updates \in ApiUpdates :
        /\ roomInPast
        /\ handleAnnotationUpdate(id, updates)
        /\ before' = state
        /\ lastOp' = [op |-> "updateAnnotation", id |-> id, updates |-> updates]

\* deleteAnnotation(id)
ApiDelete ==
    \E id \in 1..MaxUUID :
        /\ handleAnnotationDelete(id)
        /\ before' = state
        /\ lastOp' = [op |-> "deleteAnnotation", id |-> id]

\* undo()
ApiUndo ==
    /\ state' = undo(state)
    /\ before' = state
    /\ lastOp' = [op |-> "undo"]
    /\ thrown' = "none"
    /\ UNCHANGED homeVars

\* redo()
ApiRedo ==
    /\ state' = redo(state)
    /\ before' = state
    /\ lastOp' = [op |-> "redo"]
    /\ thrown' = "none"
    /\ UNCHANGED homeVars

ApiNext == ApiCreate \/ ApiUpdate \/ ApiDelete \/ ApiUndo \/ ApiRedo

SpecApi == HomeInit /\ [][ApiNext]_vars

(***************************************************************************)
(* Export: a timeline built by declareTier and well-formed                 *)
(* createAnnotation calls, written as TextGrid and parsed again            *)
(***************************************************************************)
ExportTierNames == {TierNamePool[i] : i \in 1..MaxExportTiers}

\* declareTier(name, type)
DeclareTier ==
    \E name \in ExportTierNames, type \in TierTypes :
        /\ handleAddTier(name, type)
        /\ lastOp' = [op |-> "declareTier"]
        /\ UNCHANGED before

\* createAnnotation(tier, start, end, type) on a declared tier, of the
\* tier's type, with start <= end and start = end for a point
CreateWellFormed ==
    \E n \in 1..Len(tierNames), start \in Times, end \in Times :
        LET type == getTierType(tierNames[n])
        IN  /\ start <= end
            /\ type = "point" => start = end
            /\ nextUUID < MaxUUID /\ roomInPast
            /\ handleAnnotationCreate(tierNames[n], start, end, type)
            /\ lastOp' = [op |-> "createAnnotation"]
            /\ UNCHANGED before

\* handleExport('textgrid'), and the downloaded file given to
\* parseAnnotationFile
ExportTextGrid ==
    /\ lastOp' = [op |-> "export",
                  result |-> parseAnnotationFile(handleExport("textgrid"))]
    /\ thrown' = "none"
    /\ UNCHANGED <<state, before, homeVars>>

ExportNext == DeclareTier \/ CreateWellFormed \/ ExportTextGrid

SpecExport == HomeInit /\ [][ExportNext]_vars

\* annotations compared by (tier, start, end, text, type)
AnnotationSet(anns) ==
    {<<anns[i].tier, anns[i].start, anns[i].end, anns[i].text, anns[i].type>> :
        i \in 1..Len(anns)}

\* C11: parsing the TextGrid export of a timeline built from declareTier
\* and well-formed createAnnotation calls gives the annotations of the
\* timeline, compared by (tier, start, end, text, type).
C11_TextGridRoundTrip ==
    lastOp.op = "export" =>
        /\ lastOp.result.ok
        /\ AnnotationSet(lastOp.result.annotations) = AnnotationSet(annotations)

(***************************************************************************)
(* Import: declareTier and importAnnotations(fileContent, filename)        *)
(***************************************************************************)
\* session.eaf: tier "a" with an interval and then a point, tier "d" with
\* one interval
FileElanAD ==
    ELANFile("eaf", TRUE,
        <<TimeSlot("ts1", 0), TimeSlot("ts2", 5)>>,
        <<ELANTier("a", <<Alignable("ts1", "ts2", "x")>>, <<>>),
          ELANTier("d", <<Alignable("ts2", "ts2", "")>>, <<>>)>>)

ImportFiles ==
    {FilePointA, FileReversedB, FileUnsupported, FileTwiceC,
     ShortFile(FilePointA), ShortFile(FileReversedB), FileElanAD}

\* Toolbar.handleAnnotationImport when the file is read at once
ApiImport ==
    \E file \in ImportFiles :
        LET result == parseAnnotationFile(file)
        IN  /\ nextUUID + Len(result.annotations) <= MaxUUID
            /\ Len(result.annotations) > 0 => roomInPast
            /\ IF result.ok
               THEN handleAnnotationImport(result, duration) /\ UNCHANGED <<pending, waveVars>>
               ELSE /\ thrown' = "Unsupported file format"
                    /\ UNCHANGED <<state, homeVars>>
            /\ before' = state
            /\ lastOp' = [op |-> "import", file |-> file]

ImportNext == DeclareTier \/ ApiImport \/ ApiUndo \/ ApiRedo

SpecImport == HomeInit /\ [][ImportNext]_vars

(***************************************************************************)
(* Cursor, selection and boundary navigation                               *)
(***************************************************************************)
\* 0.05 s: step of the extend-selection commands
ExtendStep == 5
\* 0.01 s: tolerance of the boundary commands
BoundaryEpsilon == 1

\* times a pointer position or the audio element can report
CursorTimes == Times \cup {t + BoundaryEpsilon : t \in Times}

\* Array.prototype.sort((a, b) => a - b) of the values of a Set
RECURSIVE SortAscending(_)
SortAscending(S) ==
    IF S = {} THEN <<>>
    ELSE LET least == CHOOSE x \in S : \A y \in S : x <= y
         IN  <<least>> \o SortAscending(S \ {least})

\* bug variant: the boundaries stay in the order the Set received them
findBoundariesUnsorted ==
    Dedup(Flatten([i \in 1..Len(annotations) |->
                      <<annotations[i].start, annotations[i].end>>]), {})

findBoundaries ==
    SortAscending(SeqToSet(Flatten([i \in 1..Len(annotations) |->
                      <<annotations[i].start, annotations[i].end>>])))

\* WaveformViewer.handleClick, AudioPlayer.handleTimeUpdate
TimeChange ==
    \E time \in CursorTimes :
        /\ audioFile # 0
        /\ currentTime' = time
        /\ lastOp' = [op |-> "timeChange"]
        /\ thrown' = "none"
        /\ UNCHANGED <<state, before, audioFile, duration, selectionStart,
                       selectionEnd, viewVars, tierVars, nextUUID, pending,
                       waveVars>>

\* WaveformViewer.handleMouseDown: onTimeChange(pixelToTime(x))
WaveformMouseDown ==
    \E time \in CursorTimes :
        /\ audioFile # 0
        /\ currentTime' = time
        /\ lastOp' = [op |-> "mouseDown", time |-> time]
        /\ thrown' = "none"
        /\ UNCHANGED <<state, before, audioFile, duration, selectionStart,
                       selectionEnd, viewVars, tierVars, nextUUID, pending,
                       waveVars>>

\* SpectrogramCanvas.handleMouseDown: onTimeClick(xToTime(x)), which is
\* SpectrogramViewer.handleTimeClick
SpectrogramClick ==
    \E time \in CursorTimes :
        /\ audioFile # 0
        /\ currentTime' = time
        /\ handleSelectionChange(time, time)
        /\ lastOp' = [op |-> "timeClick", time |-> time]
        /\ UNCHANGED before

\* Escape
ClearSelection ==
    /\ keyboardEnabled
    /\ selectionStart' = Null
    /\ selectionEnd' = Null
    /\ lastOp' = [op |-> "clearSelection"]
    /\ thrown' = "none"
    /\ UNCHANGED <<state, before, audioFile, duration, currentTime, viewVars,
                   tierVars, nextUUID, pending, waveVars>>

\* bug variant: Shift + Left without a selection sets the start only
ExtendSelectionLeftOneBound ==
    /\ keyboardEnabled
    /\ IF selectionStart = Null
       THEN selectionStart' = currentTime /\ UNCHANGED selectionEnd
       ELSE /\ selectionStart' = Max(0, selectionStart - ExtendStep)
            /\ UNCHANGED selectionEnd
    /\ lastOp' = [op |-> "extendSelectionLeft"]
    /\ thrown' = "none"
    /\ UNCHANGED <<state, before, audioFile, duration, currentTime, viewVars,
                   tierVars, nextUUID, pending, waveVars>>

\* Shift + Left
ExtendSelectionLeft ==
    /\ keyboardEnabled
    /\ IF selectionStart = Null
       THEN selectionStart' = currentTime /\ selectionEnd' = currentTime
       ELSE /\ selectionStart' = Max(0, selectionStart - ExtendStep)
            /\ UNCHANGED selectionEnd
    /\ lastOp' = [op |-> "extendSelectionLeft"]
    /\ thrown' = "none"
    /\ UNCHANGED <<state, before, audioFile, duration, currentTime, viewVars,
                   tierVars, nextUUID, pending, waveVars>>

\* Shift + Right
ExtendSelectionRight ==
    /\ keyboardEnabled
    /\ IF selectionEnd = Null
       THEN selectionStart' = currentTime /\ selectionEnd' = currentTime
       ELSE /\ selectionEnd' = Min(duration, selectionEnd + ExtendStep)
            /\ UNCHANGED selectionStart
    /\ lastOp' = [op |-> "extendSelectionRight"]
    /\ thrown' = "none"
    /\ UNCHANGED <<state, before, audioFile, duration, currentTime, viewVars,
                   tierVars, nextUUID, pending, waveVars>>

\* onPreviousBoundary
PreviousBoundary ==
    LET earlier(b) == b < currentTime - BoundaryEpsilon
        found == SelectSeq(findBoundaries, earlier)
    IN  /\ keyboardEnabled
        /\ currentTime' = IF found # <<>> THEN Last(found) ELSE currentTime
        /\ lastOp' = [op |-> "previousBoundary", from |-> currentTime]
        /\ thrown' = "none"
        /\ UNCHANGED <<state, before, audioFile, duration, selectionStart,
                       selectionEnd, viewVars, tierVars, nextUUID, pending,
                       waveVars>>

\* onNextBoundary
NextBoundary ==
    LET later(b) == b > currentTime + BoundaryEpsilon
        found == SelectSeq(findBoundaries, later)
    IN  /\ keyboardEnabled
        /\ currentTime' = IF found # <<>> THEN Head(found) ELSE currentTime
        /\ lastOp' = [op |-> "nextBoundary", from |-> currentTime]
        /\ thrown' = "none"
        /\ UNCHANGED <<state, before, audioFile, duration, selectionStart,
                       selectionEnd, viewVars, tierVars, nextUUID, pending,
                       waveVars>>

\* TextGrid files imported while the cursor is used
CursorFiles == {FilePointA, FileReversedB}

\* Toolbar.handleAnnotationImport when the file is read at once
CursorImport ==
    \E file \in CursorFiles :
        LET result == parseAnnotationFile(file)
        IN  /\ nextUUID + Len(result.annotations) <= MaxUUID
            /\ roomInPast
            /\ handleAnnotationImport(result, duration)
            /\ lastOp' = [op |-> "import"]
            /\ UNCHANGED <<before, pending, waveVars>>

CursorNext ==
    \/ FileOpen \/ LoadedMetadata \/ TimeChange \/ WaveformMouseDown
    \/ SpectrogramClick \/ PointerDrag \/ ClearSelection \/ ExtendSelectionLeft
    \/ ExtendSelectionRight \/ PreviousBoundary \/ NextBoundary
    \/ CursorImport

SpecCursor == HomeInit /\ [][CursorNext]_vars

(***************************************************************************)
(* Session: files opened over a timeline that is in use                    *)
(***************************************************************************)
\* zoom levels and scroll offsets the spectrogram viewer reports
ZoomLevels == {1, 2}
ScrollOffsets == {0, 1}

\* SpectrogramViewer.handleWheel with Ctrl: onZoomChange
ZoomChange ==
    \E zoom \in ZoomLevels :
        /\ audioFile # 0
        /\ zoomLevel' = zoom
        /\ lastOp' = [op |-> "zoomChange"]
        /\ thrown' = "none"
        /\ UNCHANGED <<state, before, audioFile, duration, cursorVars, scrollX,
                       tierVars, nextUUID, pending, waveVars>>

\* SpectrogramViewer.handleWheel with Shift: onScrollChange
ScrollChange ==
    \E offset \in ScrollOffsets :
        /\ audioFile # 0
        /\ scrollX' = offset
        /\ lastOp' = [op |-> "scrollChange"]
        /\ thrown' = "none"
        /\ UNCHANGED <<state, before, audioFile, duration, cursorVars, zoomLevel,
                       tierVars, nextUUID, pending, waveVars>>

\* Toolbar.handleFileChange; the operation remembers what it replaced
SessionFileOpen ==
    \E file \in AudioFiles :
        /\ handleFileOpen(file)
        /\ before' = state
        /\ lastOp' = [op |-> "fileOpen",
                      replaced |-> [tiers |-> Len(tierConfigs),
                                    selection |-> selectionStart,
                                    time |-> currentTime,
                                    zoom |-> zoomLevel,
                                    scroll |-> scrollX]]

SessionNext ==
    \/ SessionFileOpen \/ LoadedMetadata \/ TimeChange \/ PointerDrag
    \/ ZoomChange \/ ScrollChange \/ AddTier \/ TierDoubleClick
    \/ Undo \/ Redo

SpecSession == HomeInit /\ [][SessionNext]_vars

\* C16: right after a file is opened the annotation list is empty, no tier
\* is declared, the selection is null, currentTime is 0, zoom is 1, scroll
\* is 0 and both history stacks are empty, so that undo and redo change
\* nothing.
C16_FileOpenResets ==
    lastOp.op = "fileOpen" =>
        /\ annotations = <<>>
        /\ tierNames = <<>> /\ tierConfigs = <<>>
        /\ selectionStart = Null /\ selectionEnd = Null
        /\ currentTime = 0 /\ zoomLevel = 1 /\ scrollX = 0
        /\ state.past = <<>> /\ state.future = <<>>
        /\ undo(state) = state /\ redo(state) = state

\* a file was opened over annotations, both history stacks, a tier, a
\* selection, a moved cursor, a zoom and a scroll
C16_Witness ==
    /\ lastOp.op = "fileOpen"
    /\ before.present # <<>> /\ before.past # <<>> /\ before.future # <<>>
    /\ lastOp.replaced.tiers > 0 /\ lastOp.replaced.selection # Null
    /\ lastOp.replaced.time # 0 /\ lastOp.replaced.zoom # 1
    /\ lastOp.replaced.scroll # 0

(***************************************************************************)
(* Parsing: parseAnnotationFile applied to a file                          *)
(***************************************************************************)
\* sequences of at most n elements of S
SeqsUpTo(S, n) == UNION {[1..k -> S] : k \in 0..n}

Extensions == {"textgrid", "eaf", "xml", "txt"}

\* the first k records of a TextGrid tier: intervals with a text alternate
\* with zero-width ones
FileItems(k) ==
    [i \in 1..k |-> IF i % 2 = 1 THEN Item(0, 5, "x") ELSE Item(5, 5, "")]

\* the tiers of a TextGrid: any classes and record counts, names in pool order
TextGridTierSeqs ==
    {[t \in 1..Len(shape) |->
         FileTier(shape[t][1], TierNamePool[t], FileItems(shape[t][2]))] :
       shape \in SeqsUpTo({"IntervalTier", "TextTier"} \X (0..MaxFileItems),
                          MaxFileTiers) \ {<<>>}}

LongFiles ==
    {AnnotationFile("textgrid", TRUE, FALSE, 15, tiers) : tiers \in TextGridTierSeqs}

ShortFiles == {ShortFile(f) : f \in LongFiles}

\* the file cut after its first n lines
Truncated(f, n) == [f EXCEPT !.lines = SubSeq(@, 1, n)]

\* the file without its i-th line
WithoutLine(f, i) ==
    [f EXCEPT !.lines = SubSeq(@, 1, i - 1) \o SubSeq(@, i + 1, Len(@))]

\* the i-th line of a long-form text is a field of a record
IsRecordField(lines, i) ==
    \/ lines[i].k \in {"time", "text"}
    \/ lines[i].k = "xmin" /\ lines[i - 1].k = "record"
    \/ lines[i].k = "xmax" /\ lines[i - 2].k = "record"

\* TextGrid texts that stop before the records their counts declare
TruncatedFiles ==
    UNION {{Truncated(f, n) : n \in Len(HeaderLines(TRUE))..(Len(f.lines) - 1)} :
             f \in LongFiles \cup ShortFiles}

\* long-form texts in which one record lacks one of its fields
IncompleteFiles ==
    UNION {{WithoutLine(f, i) :
              i \in {j \in 1..Len(f.lines) : IsRecordField(f.lines, j)}} :
             f \in LongFiles}

\* the TIME_SLOTs of every ELAN document: ts1 at 0, ts2 at 5
TimeOrder == <<TimeSlot("ts1", 0), TimeSlot("ts2", 5)>>

\* ALIGNABLE_ANNOTATIONs whose references are defined
AlignablePool ==
    {Alignable("ts1", "ts2", "x"), Alignable("ts2", "ts2", ""),
     Alignable("ts2", "ts1", "")}

\* an ALIGNABLE_ANNOTATION whose second reference names no TIME_SLOT
Dangling == Alignable("ts2", "ts9", "x")

ELANTierSeqs(pool) ==
    {[t \in 1..Len(shape) |-> ELANTier(TierNamePool[t], shape[t], <<>>)] :
       shape \in SeqsUpTo(SeqsUpTo(pool, MaxFileItems), MaxFileTiers) \ {<<>>}}

ELANFiles ==
    {ELANFile("eaf", TRUE, TimeOrder, tiers) : tiers \in ELANTierSeqs(AlignablePool)}

\* ELAN documents with at least one unresolvable reference
DanglingFiles ==
    {ELANFile("eaf", TRUE, TimeOrder, tiers) :
        tiers \in ELANTierSeqs(AlignablePool \cup {Dangling})} \ ELANFiles

\* every combination of extension and content markers
DetectionFiles ==
    {[extension |-> e, textGridMarker |-> tg, annotationDocument |-> doc,
      tierTag |-> tag, xmax |-> 15, tiers |-> <<>>,
      lines |-> IF tg THEN LongForm(TRUE, 15,
                              <<FileTier("IntervalTier", "a", <<Item(0, 5, "x")>>)>>)
                ELSE <<Other("free text")>>,
      timeSlots |-> IF tag THEN TimeOrder ELSE <<>>,
      elanTiers |-> IF tag
                    THEN <<ELANTier("a", <<Alignable("ts1", "ts2", "x")>>, <<>>)>>
                    ELSE <<>>] :
        e \in Extensions, tg \in BOOLEAN, doc \in BOOLEAN, tag \in BOOLEAN}

\* the files given to the parser, each with whether it is malformed
ParseInputs ==
    {[file |-> f, malformed |-> FALSE] :
        f \in LongFiles \cup ShortFiles \cup ELANFiles \cup DetectionFiles}
    \cup {[file |-> f, malformed |-> TRUE] :
        f \in TruncatedFiles \cup IncompleteFiles \cup DanglingFiles}

\* a file has been chosen in the file dialog
ParseInit ==
    /\ state = InitialHistory(<<>>)
    /\ before = InitialHistory(<<>>)
    /\ thrown = "none"
    /\ HomeIdle
    /\ \E input \in ParseInputs :
          lastOp = [op |-> "chosen", file |-> input.file,
                    malformed |-> input.malformed]

\* parseAnnotationFile(content, file.name)
ParseFile ==
    LET result == parseAnnotationFile(lastOp.file)
    IN  /\ lastOp.op = "chosen"
        /\ lastOp' = [op |-> "parse", file |-> lastOp.file,
                      malformed |-> lastOp.malformed,
                      format |-> detectFormat(lastOp.file),
                      result |-> result]
        /\ thrown' = IF result.ok THEN "none" ELSE "Unsupported file format"
        /\ UNCHANGED <<state, before, homeVars>>

SpecParse == ParseInit /\ [][ParseFile]_vars

(***************************************************************************)
(* The panes: time <-> pixel mappings                                      *)
(***************************************************************************)
\* a quotient num / den of integers; the mappings divide, and two results
\* are the same number iff their cross products are equal
Quotient(num, den) == [num |-> num, den |-> den]
SameNumber(a, b) == a.num * b.den = b.num * a.den

\* WaveformViewer.pixelToTime: scrollX is a fraction of the hidden duration
pixelToTime(x, d, zoom, scroll, containerWidth) ==
    \* startTime + (x / containerWidth) * visibleDuration, with
    \* visibleDuration = d / zoom and startTime = scroll * (d - d / zoom)
    Quotient(scroll * d * (zoom - 1) * containerWidth + x * d,
             zoom * containerWidth)

\* WaveformViewer.timeToPixel
timeToPixel(time, d, zoom, scroll, containerWidth) ==
    \* ((time - startTime) / visibleDuration) * containerWidth
    Quotient((time * zoom - scroll * d * (zoom - 1)) * containerWidth, d)

\* SpectrogramCanvas.timeToX: scrollX is a number of pixels, with
\* pixelsPerSecond = (width * zoomLevel) / data.duration
timeToX(time, d, zoom, scroll, width) ==
    Quotient(time * width * zoom - scroll * d, d)

\* SpectrogramCanvas.xToTime
xToTime(x, d, zoom, scroll, width) ==
    Quotient((x + scroll) * d, width * zoom)

\* Segment: left = annotation.start * pixelsPerSecond - scrollOffset, with
\* the panel's pixelsPerSecond = (containerWidth * zoomLevel) / duration
SegmentLeft(start, d, zoom, scroll, containerWidth) ==
    Quotient(start * containerWidth * zoom - scroll * d, d)

\* Tier.handleDoubleClick: time = (clientX - rect.left + scrollOffset) /
\* pixelsPerSecond
TierClickTime(x, d, zoom, scroll, containerWidth) ==
    Quotient((x + scroll) * d, containerWidth * zoom)

\* viewport widths, pixel positions, times (hundredths of a second)
Widths == {100, 200}
PanePixels == {0, 50, 100}
PaneDurations == {10, 20}
PaneTimes == {0, 5, 10}
PaneScrolls == {0, 1, 2}

\* a file is loaded and the view has some zoom level and scroll offset
PaneInit ==
    /\ state = InitialHistory(<<>>)
    /\ before = InitialHistory(<<>>)
    /\ thrown = "none"
    /\ audioFile = 1 /\ currentTime = 0
    /\ selectionStart = Null /\ selectionEnd = Null
    /\ tierNames = <<>> /\ tierConfigs = <<>>
    /\ nextUUID = 0 /\ pending = {}
    /\ waveformViewer = WaveformIdle /\ analyzing = <<>>
    /\ duration \in PaneDurations
    /\ zoomLevel \in ZoomLevels
    /\ scrollX \in PaneScrolls
    /\ \E w \in Widths, t \in PaneTimes, x \in PanePixels :
          lastOp = [op |-> "layout", width |-> w, time |-> t, x |-> x]

\* one render of the three panes with the same props
Render ==
    LET w == lastOp.width
        t == lastOp.time
        x == lastOp.x
    IN  /\ lastOp.op = "layout"
        /\ lastOp' =
              [op |-> "render", width |-> w, time |-> t, x |-> x,
               waveform |-> [pixel |-> timeToPixel(t, duration, zoomLevel, scrollX, w),
                             time |-> pixelToTime(x, duration, zoomLevel, scrollX, w)],
               spectrogram |-> [pixel |-> timeToX(t, duration, zoomLevel, scrollX, w),
                                time |-> xToTime(x, duration, zoomLevel, scrollX, w)],
               panel |-> [pixel |-> SegmentLeft(t, duration, zoomLevel, scrollX, w),
                          time |-> TierClickTime(x, duration, zoomLevel, scrollX, w)]]
        /\ UNCHANGED <<state, before, thrown, homeVars>>

SpecPanes == PaneInit /\ [][Render]_vars

(***************************************************************************)
(* Waveform pane: the analysis requests of WaveformViewer                  *)
(***************************************************************************)
\* audio files opened while the waveform pane is watched
WaveFiles == {1, 2}

\* WaveformResponse of the analysis of an audio file (file: the audio file
\* that was analysed)
WaveformResponse(file) == [file |-> file, duration |-> 10 * file]

\* the promises but the i-th
WithoutPromise(promises, i) ==
    SubSeq(promises, 1, i - 1) \o SubSeq(promises, i + 1, Len(promises))

\* Toolbar.handleFileChange / handleOpenClick with either audio file
WaveformFileOpen ==
    \E file \in WaveFiles :
        /\ handleFileOpen(file)
        /\ lastOp' = [op |-> "fileOpen"]
        /\ UNCHANGED before

\* useEffect(..., [file]) of WaveformViewer: runs after a render in which
\* the file prop differs from the one of the previous run
FetchEffect ==
    /\ audioFile # waveformViewer.file
    /\ audioFile # 0 => Len(analyzing) < MaxAnalyzing
    /\ IF audioFile = 0
       THEN /\ waveformViewer' = [waveformViewer EXCEPT !.waveformData = NoWaveform,
                                                        !.file = 0]
            /\ UNCHANGED analyzing
       ELSE /\ waveformViewer' = [waveformViewer EXCEPT !.isLoading = TRUE,
                                                        !.error = "none",
                                                        !.file = audioFile]
            /\ analyzing' = Append(analyzing, audioFile)
    /\ lastOp' = [op |-> "fetchEffect"]
    /\ thrown' = "none"
    /\ UNCHANGED <<state, before, audioFile, duration, cursorVars, viewVars,
                   tierVars, nextUUID, pending>>

\* .then((data) => { setWaveformData(data); setIsLoading(false) }) of any
\* of the promises that have not settled
AnalysisResolved ==
    \E i \in 1..Len(analyzing) :
        /\ waveformViewer' =
              [waveformViewer EXCEPT !.waveformData = WaveformResponse(analyzing[i]),
                                     !.isLoading = FALSE]
        /\ analyzing' = WithoutPromise(analyzing, i)
        /\ lastOp' = [op |-> "analysisResolved", file |-> analyzing[i]]
        /\ thrown' = "none"
        /\ UNCHANGED <<state, before, audioFile, duration, cursorVars, viewVars,
                       tierVars, nextUUID, pending>>

\* .catch((err) => { setError(...); setIsLoading(false) })
AnalysisRejected ==
    \E i \in 1..Len(analyzing) :
        /\ waveformViewer' =
              [waveformViewer EXCEPT !.error = "Failed to load waveform",
                                     !.isLoading = FALSE]
        /\ analyzing' = WithoutPromise(analyzing, i)
        /\ lastOp' = [op |-> "analysisRejected", file |-> analyzing[i]]
        /\ thrown' = "none"
        /\ UNCHANGED <<state, before, audioFile, duration, cursorVars, viewVars,
                       tierVars, nextUUID, pending>>

WaveformNext ==
    \/ WaveformFileOpen \/ FetchEffect \/ AnalysisResolved \/ AnalysisRejected

SpecWaveform == HomeInit /\ [][WaveformNext]_vars

(***************************************************************************)
(* Properties of the waveform pane (checked under SpecWaveform)            *)
(***************************************************************************)
\* C30: once no analysis request is outstanding, the waveform data the pane
\* holds, and so the duration of its time / pixel mapping, is the analysis
\* of the audio file that is open, in whatever order the responses arrived
C30_WaveformOfOpenFile ==
    (analyzing = <<>> /\ audioFile = waveformViewer.file
        /\ waveformViewer.waveformData # NoWaveform) =>
        /\ waveformViewer.waveformData.file = audioFile
        /\ waveformViewer.waveformData.duration =
              WaveformResponse(audioFile).duration

(***************************************************************************)
(* Properties of the panes (checked under SpecPanes)                       *)
(***************************************************************************)
\* C21: with the same duration, zoom level, viewport width and scroll
\* offset, the waveform pane, the spectrogram pane and the annotation panel
\* map a time to the same pixel offset and a pixel to the same time.
C21_OneScrollConvention ==
    lastOp.op = "render" =>
        /\ SameNumber(lastOp.waveform.pixel, lastOp.spectrogram.pixel)
        /\ SameNumber(lastOp.spectrogram.pixel, lastOp.panel.pixel)
        /\ SameNumber(lastOp.waveform.time, lastOp.spectrogram.time)
        /\ SameNumber(lastOp.spectrogram.time, lastOp.panel.time)

(***************************************************************************)
(* Properties of the parsers (checked under SpecParse)                     *)
(***************************************************************************)
\* the format the detection rules name for a file, taken in order:
\* extension, then ELAN root marker under .eaf/.xml, then content literals
RuleFormat(f) ==
    IF f.extension = "textgrid" THEN "TextGrid"
    ELSE IF f.extension \in {"eaf", "xml"} /\ f.annotationDocument THEN "ELAN"
    ELSE IF f.textGridMarker THEN "TextGrid"
    ELSE IF f.annotationDocument THEN "ELAN"
    ELSE "unsupported"

\* the content carries a literal of one of the two grammars
MatchesKnownGrammar(f) == f.textGridMarker \/ f.annotationDocument

\* C18: parseAnnotationFile hands the file to the parser the detection
\* rules name, taken in order; it fails with the unsupported-format error
\* exactly when no rule matches; and a file that matches no known grammar
\* is never handed to a parser.
C18_FormatDetection ==
    lastOp.op = "parse" =>
        /\ lastOp.format = RuleFormat(lastOp.file)
        /\ (thrown = "Unsupported file format")
              <=> (RuleFormat(lastOp.file) = "unsupported")
        /\ ~MatchesKnownGrammar(lastOp.file) => lastOp.format = "unsupported"

\* C19: a file that matches a format but is structurally malformed (a
\* TextGrid with fewer records than its counts declare or with a record
\* that lacks a field, an ELAN document with a reference to an undefined
\* TIME_SLOT) is rejected with a ParseError: no import result is produced
\* and no annotation comes out of it.
C19_MalformedRejected ==
    (lastOp.op = "parse" /\ lastOp.malformed) =>
        /\ thrown = "ParseError"
        /\ ~lastOp.result.ok
        /\ lastOp.result.annotations = <<>>

\* the two references of an ALIGNABLE_ANNOTATION resolve to the same value
ZeroWidth(timeSlots, item) ==
    SlotValue(timeSlots, item.ref1) = SlotValue(timeSlots, item.ref2)

\* C20: in the result of the ELAN parser every ALIGNABLE_ANNOTATION whose
\* two references resolve to the same value is an annotation of type point
\* (the others are intervals), the declaration of a tier that owns such an
\* annotation is point-typed wherever in the tier the annotation stands,
\* and the declaration of a tier without one is interval-typed.
C20_ELANPointInference ==
    (lastOp.op = "parse" /\ ~lastOp.malformed /\ lastOp.format = "ELAN") =>
        LET f == lastOp.file
            result == lastOp.result
            ofTier(name) == LET on(a) == a.tier = name
                            IN  SelectSeq(result.annotations, on)
        IN  /\ Len(result.tierConfigs) = Len(f.elanTiers)
            /\ \A t \in 1..Len(f.elanTiers) :
                  LET tier == f.elanTiers[t]
                  IN  /\ result.tierConfigs[t].name = tier.name
                      /\ result.tierConfigs[t].type =
                            IF \E i \in 1..Len(tier.items) :
                                  ZeroWidth(f.timeSlots, tier.items[i])
                            THEN "point" ELSE "interval"
                      /\ Len(ofTier(tier.name)) = Len(tier.items)
                      /\ \A i \in 1..Len(tier.items) :
                            ofTier(tier.name)[i].type =
                              IF ZeroWidth(f.timeSlots, tier.items[i])
                              THEN "point" ELSE "interval"

\* an ELAN tier whose first annotation has a width and whose second has
\* none has been parsed, and its declaration came out point-typed
C20_Witness ==
    /\ lastOp.op = "parse" /\ ~lastOp.malformed /\ lastOp.format = "ELAN"
    /\ \E t \in 1..Len(lastOp.file.elanTiers) :
          LET tier == lastOp.file.elanTiers[t]
          IN  /\ Len(tier.items) = 2
              /\ ~ZeroWidth(lastOp.file.timeSlots, tier.items[1])
              /\ ZeroWidth(lastOp.file.timeSlots, tier.items[2])
              /\ lastOp.result.tierConfigs[t] = [name |-> tier.name, type |-> "point"]
              /\ \E i \in 1..Len(lastOp.result.annotations) :
                    /\ lastOp.result.annotations[i].tier = tier.name
                    /\ lastOp.result.annotations[i].type = "point"

\* the lines of the record that starts at line i: up to the next
\* 'intervals [n]', 'points [n]' or 'item [' line
RecordBlock(lines, i) ==
    {j \in (i + 1)..Len(lines) :
        \A m \in (i + 1)..j : lines[m].k \notin {"record", "item"}}

\* the line of kind k that the item block around line i has before line i
TierLine(lines, i, k) ==
    CHOOSE j \in 1..(i - 1) :
        /\ lines[j].k = k
        /\ \A m \in j..i : lines[m].k # "item"
        /\ \A m \in (j + 1)..(i - 1) : lines[m].k # k

HasTierLine(lines, i, k) ==
    \E j \in 1..(i - 1) : lines[j].k = k /\ \A m \in j..i : lines[m].k # "item"

\* the records of a long-form text that stand in a tier and have all the
\* fields their tier's type requires
CompleteRecords(lines) ==
    {i \in 1..Len(lines) :
        /\ lines[i].k = "record"
        /\ HasTierLine(lines, i, "class") /\ HasTierLine(lines, i, "name")
        /\ \E j \in RecordBlock(lines, i) : lines[j].k \in {"xmin", "time"}
        /\ \E j \in RecordBlock(lines, i) : lines[j].k = "text"
        /\ TierTypeOfClass(lines[TierLine(lines, i, "class")].s) = "interval"
              => \E j \in RecordBlock(lines, i) : lines[j].k = "xmax"}

\* the annotation a complete record stands for
RecordAnnotation(lines, i) ==
    LET type == TierTypeOfClass(lines[TierLine(lines, i, "class")].s)
        field(kinds) == lines[CHOOSE j \in RecordBlock(lines, i) : lines[j].k \in kinds]
        xmin == field({"xmin", "time"}).n
    IN  [tier |-> lines[TierLine(lines, i, "name")].s,
         start |-> xmin,
         end |-> IF type = "point" THEN xmin ELSE field({"xmax"}).n,
         text |-> field({"text"}).s,
         type |-> type]

\* C25: the annotations parseTextGridLong gives are, in file order, exactly
\* the annotations of the records that have all their required fields, each
\* with the name and type of its own tier and its own field values, and
\* with end = start for a point.
C25_LongRecordsOneToOne ==
    (lastOp.op = "parse" /\ lastOp.format = "TextGrid"
        /\ ~isShortFormat(lastOp.file.lines)) =>
        LET lines == lastOp.file.lines
            records == SortAscending(CompleteRecords(lines))
        IN  lastOp.result.annotations =
                [r \in 1..Len(records) |-> RecordAnnotation(lines, records[r])]

(***************************************************************************)
(* Properties of the cursor and the selection (checked under SpecCursor)   *)
(***************************************************************************)
\* C13: whenever both ends of the selection are non-null, selectionStart
\* <= selectionEnd.
C13_SelectionOrdered ==
    (selectionStart # Null /\ selectionEnd # Null) =>
        selectionStart <= selectionEnd

\* C14: the selection is never a non-null range of zero width.
C14_NoZeroWidthSelection ==
    ~(selectionStart # Null /\ selectionEnd # Null
        /\ selectionStart = selectionEnd)

\* the distinct start and end values of all annotations
Boundaries ==
    {annotations[i].start : i \in 1..Len(annotations)}
        \cup {annotations[i].end : i \in 1..Len(annotations)}

C28_BothBoundsOrNone ==
    (selectionStart = Null) <=> (selectionEnd = Null)

\* Shift + Left has moved the start of an existing selection
C28_Witness ==
    /\ lastOp.op = "extendSelectionLeft"
    /\ selectionStart # Null /\ selectionEnd # Null
    /\ selectionStart < selectionEnd
    /\ selectionStart # currentTime

\* C22: right after a pointer-down on the waveform or on the spectrogram,
\* currentTime is the time resolved from the pointer position and both
\* ends of the selection are null.
C22_PointerDownClearsSelection ==
    lastOp.op \in {"mouseDown", "timeClick"} =>
        /\ currentTime = lastOp.time
        /\ selectionStart = Null
        /\ selectionEnd = Null

(***************************************************************************)
(* Properties of the annotation store                                      *)
(***************************************************************************)
Ids(anns) == {anns[i].id : i \in 1..Len(anns)}

IsPrefix(s, t) == Len(s) <= Len(t) /\ SubSeq(t, 1, Len(s)) = s

\* the annotation with the given id after merging the fields of updates
Merged(anns, id, updates) ==
    Spread(anns[CHOOSE i \in 1..Len(anns) : anns[i].id = id], updates)

\* C6: createAnnotation(tier, t, t, 'point') raises nothing and appends one
\* point annotation; createAnnotation(tier, t1, t2, 'point') with t1 # t2
\* raises ValidationError and leaves the annotation list and the history
\* unchanged.
C6_PointCreateValidated ==
    (lastOp.op = "createAnnotation" /\ lastOp.type = "point") =>
        IF lastOp.start = lastOp.end
        THEN /\ thrown = "none"
             /\ Len(state.present) = Len(before.present) + 1
             /\ Last(state.present).type = "point"
        ELSE /\ thrown = "ValidationError"
             /\ state = before

\* C7: every annotation in the store has start <= end.
C7_StartNotAfterEnd ==
    \A i \in 1..Len(annotations) : annotations[i].start <= annotations[i].end

\* C8: updateAnnotation raises NotFoundError for an absent id, rejects a
\* merge that would give a point annotation start # end and leaves the
\* store unchanged then, so every point annotation has start = end.
C8_UpdateValidated ==
    /\ lastOp.op = "updateAnnotation" =>
          IF lastOp.id \notin Ids(before.present)
          THEN thrown = "NotFoundError"
          ELSE LET m == Merged(before.present, lastOp.id, lastOp.updates)
               IN  (m.type = "point" /\ m.start # m.end) =>
                      (thrown = "ValidationError" /\ state = before)
    /\ \A i \in 1..Len(annotations) :
          annotations[i].type = "point" =>
              annotations[i].start = annotations[i].end

\* C17: deleteAnnotation(id) of a present id removes exactly that annotation
\* and keeps the others in order; of an absent id it raises nothing and
\* changes neither the list nor the history; deleting the same id again
\* changes nothing.
C17_DeleteIdempotent ==
    lastOp.op = "deleteAnnotation" =>
        LET old == before.present
            again(a) == a.id # lastOp.id
        IN  /\ thrown = "none"
            /\ IF lastOp.id \in Ids(old)
               THEN LET k == CHOOSE i \in 1..Len(old) : old[i].id = lastOp.id
                    IN  /\ state.present =
                              [i \in 1..(Len(old) - 1) |->
                                  IF i < k THEN old[i] ELSE old[i + 1]]
                        /\ state.past = Append(before.past, old)
                        /\ state.future = <<>>
               ELSE state = before
            /\ set(state, SelectSeq(state.present, again), FALSE,
                   maxHistoryDefault) = state

\* the first of two annotations was deleted, and then the same id again
\* while the list and the undo stack were non-empty
C17_Witness ==
    /\ lastOp.op = "deleteAnnotation"
    /\ lastOp.id \notin Ids(before.present)
    /\ before.present # <<>> /\ Len(before.past) > 2
    /\ Len(Last(before.past)) = 2 /\ Last(before.past)[1].id = lastOp.id

\* C23: every annotation of the timeline that stands on a tier declared
\* point-typed is of type point.
C23_PointTierHoldsPoints ==
    \A i \in 1..Len(annotations) :
        getTierType(annotations[i].tier) = "point" => annotations[i].type = "point"

\* C24: a step of undo or redo leaves duration, the tier declarations, the
\* selection, currentTime, zoom and scroll as they were; only the
\* annotation history changes.
C24_UndoRedoFrame ==
    [][lastOp'.op \in {"undo", "redo"} =>
          UNCHANGED <<duration, tierNames, tierConfigs, selectionStart,
                      selectionEnd, currentTime, zoomLevel, scrollX>>]_vars

\* the import of reversed.TextGrid into a timeline without duration has
\* been undone: its annotation is gone from present, its tier "b" and its
\* duration are still there
C24_Witness ==
    /\ lastOp.op = "undo"
    /\ annotations = <<>>
    /\ state.future # <<>>
    /\ \E i \in 1..Len(state.future[1]) :
          /\ state.future[1][i].tier = "b"
          /\ state.future[1][i].start > state.future[1][i].end
    /\ "b" \in SeqToSet(tierNames)
    /\ \E c \in 1..Len(tierConfigs) : tierConfigs[c].name = "b"
    /\ duration = FileReversedB.xmax

\* C27: an import whose result has at least one annotation adds exactly
\* one entry to past (the list before the import), clears future, and one
\* undo gives back the list before the import; an import whose result has
\* no annotation leaves the history as it was, redo stack included.
C27_ImportIsOneStep ==
    (lastOp.op = "import" /\ parseAnnotationFile(lastOp.file).ok) =>
        IF parseAnnotationFile(lastOp.file).annotations # <<>>
        THEN /\ state.past = Append(before.past, before.present)
             /\ state.future = <<>>
             /\ undo(state).present = before.present
        ELSE state = before

\* annotations have been imported over a non-empty redo stack
C27_Witness ==
    /\ lastOp.op = "import"
    /\ parseAnnotationFile(lastOp.file).annotations # <<>>
    /\ before.future # <<>>
    /\ Len(state.present) > Len(before.present)

\* C29: the completion of an import that was started before the latest
\* file open adds no annotation, no tier and no duration to the timeline
\* that the file open has reset
C29_StaleImportDropped ==
    [][(lastOp'.op = "import" /\ "startedOn" \in DOMAIN lastOp'
            /\ lastOp'.startedOn # audioFile) =>
          UNCHANGED <<state, tierNames, tierConfigs, duration>>]_vars

\* C12: no two tier declarations share a name, in tierConfigs and in
\* tierNames.
C12_TierNamesUnique ==
    /\ \A i, j \in 1..Len(tierConfigs) :
          tierConfigs[i].name = tierConfigs[j].name => i = j
    /\ \A i, j \in 1..Len(tierNames) : tierNames[i] = tierNames[j] => i = j

\* C9: an import only appends.  The annotations and the tier declarations
\* present before it are a prefix of those after it, the appended
\* annotations are the file's, every appended declaration is one of the
\* file's with a name that was not declared, and a declared name that the
\* file declares again is neither duplicated nor changed.
C9_ImportAppendsOnly ==
    [][lastOp'.op = "import" =>
        LET result == parseAnnotationFile(lastOp'.file)
            added == SubSeq(annotations', Len(annotations) + 1, Len(annotations'))
            addedConfigs == SubSeq(tierConfigs', Len(tierConfigs) + 1,
                                   Len(tierConfigs'))
            addedNames == SubSeq(tierNames', Len(tierNames) + 1, Len(tierNames'))
        IN  /\ IsPrefix(annotations, annotations')
            /\ IsPrefix(tierConfigs, tierConfigs')
            /\ IsPrefix(tierNames, tierNames')
            /\ Len(added) = Len(result.annotations)
            /\ \A i \in 1..Len(added) :
                  /\ added[i].id \notin Ids(annotations)
                  /\ ObjectDeepEqual(added[i],
                        Annotation(added[i].id, result.annotations[i].tier,
                                   result.annotations[i].start,
                                   result.annotations[i].end,
                                   result.annotations[i].text,
                                   result.annotations[i].type))
            /\ \A i \in 1..Len(addedConfigs) :
                  /\ addedConfigs[i] \in SeqToSet(result.tierConfigs)
                  /\ \A j \in 1..Len(tierConfigs) :
                        tierConfigs[j].name # addedConfigs[i].name
            /\ \A i \in 1..Len(addedNames) :
                  addedNames[i] \notin SeqToSet(tierNames)
            /\ \A j \in 1..Len(tierConfigs) :
                  Cardinality({k \in 1..Len(tierConfigs') :
                                 tierConfigs'[k].name = tierConfigs[j].name})
                    = Cardinality({k \in 1..Len(tierConfigs) :
                                 tierConfigs[k].name = tierConfigs[j].name})
    ]_vars

\* the point tier "a" of a file was imported into a store that had an
\* annotation and declared "a" as an interval tier
C9_Witness ==
    /\ lastOp.op = "import" /\ lastOp.file = FilePointA
    /\ Len(tierConfigs) = 1 /\ tierConfigs[1] = [name |-> "a", type |-> "interval"]
    /\ Len(annotations) = 2 /\ annotations[1].type = "interval"
    /\ annotations[2].type = "point"

\* C10: a failed import changes neither the annotations, the tier
\* declarations, the duration, the selection nor the history stacks, and
\* undo and redo give afterwards what they would have given before.
C10_FailedImportChangesNothing ==
    [][lastOp'.op = "importFailed" =>
        /\ thrown' # "none"
        /\ state' = state
        /\ UNCHANGED <<tierNames, tierConfigs, duration, selectionStart,
                       selectionEnd, currentTime, audioFile, nextUUID>>
        /\ undo(state') = undo(state)
        /\ redo(state') = redo(state)
    ]_vars

\* an import failed in a store with tiers, annotations and both stacks
C10_Witness ==
    /\ lastOp.op = "importFailed"
    /\ thrown = "Unsupported file format"
    /\ canUndo /\ canRedo
    /\ Len(tierConfigs) > 0 /\ selectionStart # Null

====
